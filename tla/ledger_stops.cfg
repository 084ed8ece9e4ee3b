\* Writers and readers of one file, deaths, failed writes, power losses.
SPECIFICATION FairSpec
CONSTANTS
  p1 = p1
  p2 = p2
  x1 = x1
  x2 = x2
  x3 = x3
  Garbage = Garbage
  None = None
  Processes <- TwoProcesses
  Ids <- ThreeIds
  MaxStops = 2
INVARIANTS
  LedgerSound
PROPERTIES
  ImplementsLog
  CallsReturn
