\* A request and two workers on one run, with kills.
SPECIFICATION FairSpec
CONSTANTS
  r1 = r1
  r2 = r2
  q1 = q1
  q2 = q2
  w1 = w1
  w2 = w2
  None = None
  Runs <- OneRun
  Requests <- OneRequest
  Workers <- TwoWorkers
  MaxCalls = 2
  MaxJobs = 2
  MaxKills = 1
INVARIANTS
  WorkersSound
  ApprovalDecidesNamedCall
PROPERTIES
  FuturesSettle
