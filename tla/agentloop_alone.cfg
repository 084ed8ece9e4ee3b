\* One driver at a time, dying anywhere and being resumed.
SPECIFICATION Spec
CONSTANTS
  d1 = d1
  d2 = d2
  r1 = r1
  r2 = r2
  local = local
  remote = remote
  unlisted = unlisted
  a1 = a1
  p1 = p1
  None = None
  Drivers <- OneDriver
  Requests <- TwoRequests
  Tools <- LocalAndRemote
  AllowedTools <- LocalAndRemote
  ApprovalTools <- RemoteOnly
  Artifacts <- OneArtifact
  InitialInputs <- Nothing
  ApprovalIds <- OneApprovalId
  MaxDecisions = 3
  MaxToolCalls = 2
  MaxSteps = 3
  MaxDrafts = 2
  MaxCrashes = 2
INVARIANTS
  TypeOK
  ExecutedAtMostOnce
  RejectedNeverExecuted
  LedgerProjectable
  ApprovalPrecedesStart
  HardLimits
  DataFlowSound
PROPERTIES
  SuccessesProjectedFirst
  ImplementsLifecycle
