\* Two drivers and two runs: drivers die, fail on each other and are resumed.
SPECIFICATION FairSpec
CONSTANTS
  d1 = d1
  d2 = d2
  r1 = r1
  r2 = r2
  s1 = s1
  s2 = s2
  s3 = s3
  a1 = a1
  a2 = a2
  None = None
  Drivers <- TwoDrivers
  Runs <- TwoRuns
  Successes <- Narrow
  Steps <- AllSteps
  Artifacts <- AllArtifacts
  MaxDeaths = 1
INVARIANTS
  FileSound
PROPERTIES
  EventuallyProjected
