\* A crash between TOOL_CALL_MATERIALIZED and APPROVAL_REQUIRED.
SPECIFICATION Spec
CONSTANTS
  d1 = d1
  d2 = d2
  r1 = r1
  r2 = r2
  local = local
  remote = remote
  unlisted = unlisted
  a1 = a1
  p1 = p1
  None = None
  Drivers <- OneDriver
  Requests <- OneRequest
  Tools <- LocalAndRemote
  AllowedTools <- LocalAndRemote
  ApprovalTools <- RemoteOnly
  Artifacts <- Nothing
  InitialInputs <- Nothing
  ApprovalIds <- OneApprovalId
  MaxDecisions = 3
  MaxToolCalls = 2
  MaxSteps = 3
  MaxDrafts = 0
  MaxCrashes = 1
INVARIANTS
  ApprovalToolsWaitForApproval
