\* Two callers fetch one source, publish it, and put and read it otherwise.
SPECIFICATION AcquisitionSpec
CONSTANTS
  c1 = c1
  c2 = c2
  m1 = m1
  m2 = m2
  s1 = s1
  b1 = b1
  b2 = b2
  t1 = t1
  t2 = t2
  None = None
  Callers <- TwoCallers
  Media <- TwoMedia
  Schemas <- OneSchema
  Bodies <- TwoBodies
  Stamps <- TwoStamps
  Type <- Types
  MaxDeaths = 1
SYMMETRY Symmetric
INVARIANTS
  OneRecord
  RecordHasObject
  MediaAgrees
  CacheSound
PROPERTIES
  OutcomeIsFinal
