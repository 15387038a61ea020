CONSTANTS
  Writers = {w1, w2}
  NoWriter = NoWriter
  Keys = {k1}
  NoKey = NoKey
  MaxTTL = 1
  Skew = 1
  MaxEntries = 1
  MaxCalls = 2
  MaxTime = 2
SPECIFICATION Spec
INVARIANTS
  AcknowledgedSurvives
