\* Three callers submit and collect under one key, with deaths and failed writes.
SPECIFICATION Spec
CONSTANTS
  c1 = c1
  c2 = c2
  c3 = c3
  t1 = t1
  t2 = t2
  o1 = o1
  o2 = o2
  None = None
  Callers <- ThreeCallers
  Tasks <- TwoTasks
  Outputs <- TwoOutputs
  MaxFaults = 2
INVARIANTS
  DispatchedOnce
  JobSound
  CallersAgree
PROPERTIES
  ImplementsJob
SYMMETRY Symmetric
