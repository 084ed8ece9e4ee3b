\* Two drivers on one run, as a web request and a background worker or a CLI process.
SPECIFICATION FairSpec
CONSTANTS
  d1 = d1
  d2 = d2
  r1 = r1
  r2 = r2
  local = local
  remote = remote
  unlisted = unlisted
  a1 = a1
  p1 = p1
  None = None
  Drivers <- TwoDrivers
  Requests <- OneRequest
  Tools <- LocalAndUnlisted
  AllowedTools <- LocalOnly
  ApprovalTools <- Nothing
  Artifacts <- Nothing
  InitialInputs <- Nothing
  ApprovalIds <- Nothing
  MaxDecisions = 1
  MaxToolCalls = 1
  MaxSteps = 1
  MaxDrafts = 0
  MaxCrashes = 0
PROPERTIES
  RunReturns
