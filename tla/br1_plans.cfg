\* Two requests edit the settings, preview a goal for two runtime profiles and start runs.
SPECIFICATION Spec
CONSTANTS
  q1 = q1
  q2 = q2
  p1 = p1
  p2 = p2
  v1 = v1
  v2 = v2
  x1 = x1
  x2 = x2
  g1 = g1
  g2 = g2
  i1 = i1
  i2 = i2
  Absent = Absent
  Requests <- TwoRequests
  Refs <- TwoRefs
  Profiles <- TwoProfiles
  Runtimes <- TwoRuntimes
  Compilers <- OneCompiles
  Goals <- OneGoal
  Intents <- OneIntent
  MaxEdits = 4
  MaxPlans = 3
SYMMETRY Symmetric
CHECK_DEADLOCK FALSE
INVARIANTS
  KeyGoesHome
  RunsBound
