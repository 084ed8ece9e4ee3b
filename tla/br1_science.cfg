SPECIFICATION ScienceSpec
CONSTANTS
  d1 = d1
  d2 = d2
  s1 = s1
  s2 = s2
  x = x
  y = y
  z = z
  c1 = c1
  c2 = c2
  None = None
  Documents <- TwoDocuments
  Source <- Sources
  Telling <- Places
  Long <- LongOnes
  MaxCandidates = 2
  Replies <- Names
  Records <- Answers
  Tolerance = 20
  MaxArtifacts = 7
  Aims <- BothWays
  Uploads <- Uploaded
  MaxRows = 2
  Unparsable <- NoMolecules
  CandidateCount = 3
  TopN = 2
  Samples <- Batches
  MaxAttempts = 2
  Scores <- Values
  Walltime = 2
  ConnectTimeout = 1
  KillGrace = 2
  Margin = 1
CHECK_DEADLOCK FALSE
INVARIANTS
  ExportedAsReviewed
  RowsAgree
  CleaningAccounts
  ListExact
PROPERTIES
  TimeLimitLeavesNothingRunning
  WaitsEnd
