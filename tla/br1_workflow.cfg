\* Two drivers run all six stages, and may meet inside the provider once.
SPECIFICATION WorkflowSpec
CONSTANTS
  d1 = d1
  d2 = d2
  rAsk = rAsk
  rPlan = rPlan
  p1 = p1
  sA = sA
  sB = sB
  sBad = sBad
  None = None
  Drivers <- TwoDrivers
  Requests <- TwoRequests
  Tools <- Br1Tools
  AllowedTools <- Br1Tools
  ApprovalTools <- Br1ApprovalTools
  Artifacts <- Uploads
  InitialInputs <- Uploads
  ApprovalIds <- OneApprovalId
  MaxDecisions = 8
  MaxToolCalls = 7
  MaxSteps = 7
  MaxDrafts = 2
  MaxCrashes = 1
  Raw <- Upload
  Accepted = FALSE
  Specs <- ThreeSpecs
  Usable <- TwoSpecs
  Preview <- Plans
  MaxMeets = 1
INVARIANTS
  IntentAgreed
  ChainExact
  AbortStops
SYMMETRY Symmetric
